---- MODULE Spec2Model ----
(***************************************************************************)
(* Model of the earthquake export pipeline of src/dataexport.py:           *)
(* generate_date_ranges, fetch_quake_data, validate_quake_data,            *)
(* save_to_csv, save_to_json and main (thread pool + as_completed drain).  *)
(***************************************************************************)
EXTENDS Integers, Sequences, FiniteSets, TLC

\* ------------------------------------------------------------------ config
\* CONFIG SECTION of dataexport.py
START_YEAR == 1950
END_YEAR == 2025
END_MONTH == 3

MIN_LAT == -90
MAX_LAT == 90
MIN_LON == -180
MAX_LON == 180
MIN_DEPTH == 0
MAX_DEPTH == 700
MIN_MAG == 0
MAX_MAG == 10

\* number of times main() is started on the same export directory
MaxRuns == 2
\* number of windows, from the first one on, whose fetch tasks main() is
\* followed through
MaxWindows == 2
\* number of save_to_csv calls on one path in the append specification
MaxCalls == 3
\* number of records in a response of the validation specification
MaxBatch == 2

\* ---------------------------------------------------------------- calendar
SecondsPerDay == 86400
\* utcoffset of pytz "Asia/Yangon" for every instant of the accepted range
MMT_OFFSET == 23400

IsLeap(y) == (y % 4 = 0 /\ y % 100 # 0) \/ y % 400 = 0

DaysInMonth(y, m) ==
  IF m = 2 THEN (IF IsLeap(y) THEN 29 ELSE 28)
  ELSE IF m \in {4, 6, 9, 11} THEN 30 ELSE 31

\* A parsed timestamp (pandas Timestamp, UTC); nat marks NaT.
Timestamp(y, mo, d, s, ms) ==
  [nat |-> FALSE, y |-> y, mo |-> mo, d |-> d, s |-> s, ms |-> ms]

NaT == [nat |-> TRUE, y |-> 0, mo |-> 0, d |-> 0, s |-> 0, ms |-> 0]

\* t1 <= t2 on timestamps; every comparison with NaT is False
TimeLeq(a, b) ==
  /\ ~a.nat
  /\ ~b.nat
  /\ \/ a.y < b.y
     \/ a.y = b.y /\ a.mo < b.mo
     \/ a.y = b.y /\ a.mo = b.mo /\ a.d < b.d
     \/ a.y = b.y /\ a.mo = b.mo /\ a.d = b.d /\ a.s < b.s
     \/ a.y = b.y /\ a.mo = b.mo /\ a.d = b.d /\ a.s = b.s /\ a.ms <= b.ms

start_date == Timestamp(1950, 1, 1, 0, 0)
end_date == Timestamp(2025, 12, 31, SecondsPerDay - 1, 0)

\* .dt.tz_convert(myanmar_zone): the same instant on the Yangon wall clock
tz_convert(t) ==
  IF t.s + MMT_OFFSET < SecondsPerDay
  THEN [t EXCEPT !.s = t.s + MMT_OFFSET]
  ELSE LET s2 == t.s + MMT_OFFSET - SecondsPerDay
       IN IF t.d < DaysInMonth(t.y, t.mo)
          THEN [t EXCEPT !.d = t.d + 1, !.s = s2]
          ELSE IF t.mo < 12
               THEN [t EXCEPT !.mo = t.mo + 1, !.d = 1, !.s = s2]
               ELSE [t EXCEPT !.y = t.y + 1, !.mo = 1, !.d = 1, !.s = s2]

\* .dt.strftime("%Y-%m-%d %H:%M:%S"): second precision, the milliseconds go
strftime(t) == <<t.y, t.mo, t.d, t.s>>

\* ------------------------------------------------------ generate_date_ranges
DateRange(year, month) ==
  [year |-> year, month |-> month,
   from_date |-> <<year, month, 1>>,
   to_date |-> <<year, month, DaysInMonth(year, month)>>]

RECURSIVE MonthsFrom(_, _)
\* the inner loop "for month in range(1, 13)" from `month` on, with its break
MonthsFrom(year, month) ==
  IF month > 12 \/ (year = END_YEAR /\ month > END_MONTH)
  THEN <<>>
  ELSE <<DateRange(year, month)>> \o MonthsFrom(year, month + 1)

RECURSIVE YearsFrom(_)
\* the outer loop "for year in range(START_YEAR, END_YEAR + 1)" from `year` on
YearsFrom(year) ==
  IF year > END_YEAR THEN <<>>
  ELSE MonthsFrom(year, 1) \o YearsFrom(year + 1)

generate_date_ranges == YearsFrom(START_YEAR)

Take(s, n) == SubSeq(s, 1, IF n < Len(s) THEN n ELSE Len(s))

\* main: "date_ranges = generate_date_ranges()", cut to its first MaxWindows
\* windows
Submitted == Take(generate_date_ranges, MaxWindows)

\* -------------------------------------------------------------- data frames
\* A response record may carry the seven columns the exporter reads and one
\* it does not ("id").
numeric_cols == <<"latitude", "longitude", "depth", "mag">>
cols_order ==
  <<"time_utc", "time_mmt", "latitude", "longitude", "depth", "mag",
    "location", "country">>

SeqToSet(s) == {s[i] : i \in DOMAIN s}
MapSeq(s, F(_)) == [i \in DOMAIN s |-> F(s[i])]

\* JSON values of a response record
RawTime(kind, t) == [kind |-> kind, t |-> t]
RawNum(kind, v) == [kind |-> kind, v |-> v]
NullTime == RawTime("null", NaT)
NullNum == RawNum("null", 0)
NaNText == "<NaN>"

Float(v) == [nan |-> FALSE, v |-> v]
NaN == [nan |-> TRUE, v |-> 0]

\* pd.to_datetime(x, errors="coerce", utc=True)
to_datetime(x) == IF x.kind = "iso" THEN x.t ELSE NaT
\* pd.to_numeric(x, errors="coerce")
to_numeric(x) == IF x.kind \in {"num", "numstr"} THEN Float(x.v) ELSE NaN
\* Series.between(lo, hi), inclusive; NaN is in no interval
between(x, lo, hi) == ~x.nan /\ lo <= x.v /\ x.v <= hi

\* A frame: the set of its columns and its rows; a row holds every field,
\* the fields outside `columns` are fillers that are never read.
EmptyDataFrame == [columns |-> {}, rows |-> <<>>]
DfEmpty(df) == df.columns = {} \/ df.rows = <<>>
DfLen(df) == Len(df.rows)

\* A response record: the keys it carries and their values.
Quake(keys, time, lat, lon, depth, mag, location, country, id) ==
  [keys |-> keys,
   v |-> [time |-> time, latitude |-> lat, longitude |-> lon, depth |-> depth,
          mag |-> mag, location |-> location, country |-> country, id |-> id]]

\* pd.DataFrame(quakes): the columns are the union of the keys, a record
\* lacking a column holds NaN/None there
DataFrame(quakes) ==
  LET cols == UNION {quakes[i].keys : i \in DOMAIN quakes}
      Fill(q) ==
        [time |-> IF "time" \in q.keys THEN q.v.time ELSE NullTime,
         latitude |-> IF "latitude" \in q.keys THEN q.v.latitude ELSE NullNum,
         longitude |-> IF "longitude" \in q.keys THEN q.v.longitude ELSE NullNum,
         depth |-> IF "depth" \in q.keys THEN q.v.depth ELSE NullNum,
         mag |-> IF "mag" \in q.keys THEN q.v.mag ELSE NullNum,
         location |-> IF "location" \in q.keys THEN q.v.location ELSE NaNText,
         country |-> IF "country" \in q.keys THEN q.v.country ELSE NaNText,
         id |-> IF "id" \in q.keys THEN q.v.id ELSE 0]
  IN [columns |-> cols, rows |-> MapSeq(quakes, Fill)]

\* mutant: the frame accumulated so far is dropped
concat_last(a, b) == b

\* pd.concat([a, b])
concat(a, b) == [columns |-> a.columns \cup b.columns, rows |-> a.rows \o b.rows]

\* --------------------------------------------------------- fetch_quake_data
\* What the request of one window does: err is an exception inside the try
\* block (connection error, timeout, bad status, a body that is no JSON
\* object), otherwise quakes is the "earthquakes" list of the body.
Response(err, quakes) == [err |-> err, quakes |-> quakes]

fetch_quake_data(resp) ==
  IF resp.err THEN EmptyDataFrame ELSE DataFrame(resp.quakes)

\* ------------------------------------------------------ validate_quake_data
RECURSIVE drop_duplicates(_)
\* DataFrame.drop_duplicates(): the first of equal rows stays
drop_duplicates(rows) ==
  IF rows = <<>> THEN <<>>
  ELSE LET n == Len(rows)
           front == drop_duplicates(SubSeq(rows, 1, n - 1))
       IN IF \E i \in 1..(n - 1) : rows[i] = rows[n]
          THEN front
          ELSE Append(front, rows[n])

\* The outcome of a call: the frame returned, or a KeyError raised.
Returned(df) == [raised |-> FALSE, df |-> df]
Raised == [raised |-> TRUE, df |-> EmptyDataFrame]

InTimeRange(r) == TimeLeq(start_date, r.time) /\ TimeLeq(r.time, end_date)

InBounds(r) ==
  /\ between(r.latitude, MIN_LAT, MAX_LAT)
  /\ between(r.longitude, MIN_LON, MAX_LON)
  /\ between(r.depth, MIN_DEPTH, MAX_DEPTH)
  /\ between(r.mag, MIN_MAG, MAX_MAG)

Canonical(r) ==
  [time_utc |-> strftime(r.time),
   time_mmt |-> strftime(tz_convert(r.time)),
   latitude |-> r.latitude, longitude |-> r.longitude,
   depth |-> r.depth, mag |-> r.mag,
   location |-> r.location, country |-> r.country]

\* lines 62-91: the body below the "if df.empty" guard
validate_rows(df) ==
  IF "time" \notin df.columns THEN Raised
  ELSE
    LET ParseTime(r) == [r EXCEPT !.time = to_datetime(r.time)]
        timed == SelectSeq(MapSeq(df.rows, ParseTime), InTimeRange)
        Coerce(r) ==
          [r EXCEPT !.latitude = to_numeric(r.latitude),
                    !.longitude = to_numeric(r.longitude),
                    !.depth = to_numeric(r.depth),
                    !.mag = to_numeric(r.mag)]
        NotNa(r) ==
          ~r.latitude.nan /\ ~r.longitude.nan /\ ~r.depth.nan /\ ~r.mag.nan
          /\ ~r.time.nat
        numeric == SelectSeq(MapSeq(timed, Coerce), NotNa)
        masked == SelectSeq(numeric, InBounds)
        unique == drop_duplicates(masked)
    IN IF ~(SeqToSet(numeric_cols) \subseteq df.columns) THEN Raised
       ELSE IF ~({"location", "country"} \subseteq df.columns) THEN Raised
       ELSE Returned([columns |-> SeqToSet(cols_order),
                      rows |-> MapSeq(unique, Canonical)])

\* mutant: the guard of lines 59-60 is missing
validate_quake_data_unguarded(df) == validate_rows(df)

validate_quake_data(df) ==
  IF DfEmpty(df) THEN Returned(df) ELSE validate_rows(df)

\* ------------------------------------------------- save_to_csv, save_to_json
\* A CSV file: whether the path exists and its lines; a line is the header
\* or a data row, cell by cell in cols_order (NaN is written as "").
NoCsv == [exists |-> FALSE, lines |-> <<>>]
NoJson == [exists |-> FALSE, earthquakes |-> <<>>]

Cells(r) ==
  <<r.time_utc, r.time_mmt, r.latitude.v, r.longitude.v, r.depth.v, r.mag.v,
    IF r.location = NaNText THEN "" ELSE r.location,
    IF r.country = NaNText THEN "" ELSE r.country>>

HeaderLine == [header |-> TRUE, cells |-> cols_order]
DataLine(r) == [header |-> FALSE, cells |-> Cells(r)]

\* df.to_csv(path, mode="a", index=False, header=write_header)
to_csv(df, file, write_header) ==
  [exists |-> TRUE,
   lines |-> file.lines \o (IF write_header THEN <<HeaderLine>> ELSE <<>>)
                        \o MapSeq(df.rows, DataLine)]

\* mutant: the header is written by every call
save_to_csv_header(df, file) ==
  IF DfEmpty(df) THEN file
  ELSE to_csv(df, file, TRUE)

save_to_csv(df, file) ==
  IF DfEmpty(df) THEN file
  ELSE to_csv(df, file, ~file.exists)

\* json.dump({"earthquakes": df.to_dict(orient="records")}, open(path, "w"))
save_to_json(df, file) ==
  IF DfEmpty(df) THEN file
  ELSE [exists |-> TRUE, earthquakes |-> df.rows]

\* reading a data line back: the record of a CSV row
RowOfLine(line) ==
  [time_utc |-> line.cells[1], time_mmt |-> line.cells[2],
   latitude |-> Float(line.cells[3]), longitude |-> Float(line.cells[4]),
   depth |-> Float(line.cells[5]), mag |-> Float(line.cells[6]),
   location |-> IF line.cells[7] = "" THEN NaNText ELSE line.cells[7],
   country |-> IF line.cells[8] = "" THEN NaNText ELSE line.cells[8]]

IsData(line) == ~line.header
CsvRecords(file) == MapSeq(SelectSeq(file.lines, IsData), RowOfLine)
CsvHeaders(file) == Len(file.lines) - Len(CsvRecords(file))

\* ------------------------------------------------------------ the responses
AllKeys ==
  {"time", "latitude", "longitude", "depth", "mag", "location", "country", "id"}

\* a record of the given month, as the source reports it
QuakeIn(year, month) ==
  Quake(AllKeys, RawTime("iso", Timestamp(year, month, 15, 3600, 0)),
        RawNum("num", 21), RawNum("numstr", 96), RawNum("num", 10),
        RawNum("num", month), "Mandalay", "Myanmar", month)
\* a record of the last evening (UTC) of the given month
QuakeLate(year, month) ==
  Quake(AllKeys,
        RawTime("iso", Timestamp(year, month, DaysInMonth(year, month), 82800, 0)),
        RawNum("num", 17), RawNum("num", 95), RawNum("num", 700),
        RawNum("num", 10), "Bago", "Myanmar", 100 + month)
\* the record with a magnitude above MAX_MAG
OutOfBounds(q) == [q EXCEPT !.v.mag = RawNum("num", 11)]
\* the record without the descriptive fields
Bare(q) == [q EXCEPT !.keys = AllKeys \ {"location", "country"}]

QuakeA == QuakeIn(1950, 1)
QuakeB == QuakeLate(1950, 2)
QuakeOut == OutOfBounds(QuakeA)
QuakeBare == Bare(QuakeA)

\* What the remote source may answer to the request of window w: a failure,
\* records of that month, or a record without the descriptive fields.
Responses(w) ==
  LET q == QuakeIn(w.year, w.month)
      late == QuakeLate(w.year, w.month)
  IN { Response(TRUE, <<>>),
       Response(FALSE, <<q, late, q, OutOfBounds(late)>>),
       Response(FALSE, <<Bare(q)>>) }

\* ------------------------------------------------------------------- paths
MonthlyPath(year, month) == [level |-> "monthly", year |-> year, month |-> month]
YearlyPath(year) == [level |-> "yearly", year |-> year, month |-> 0]
CombinedPath == [level |-> "combined", year |-> 0, month |-> 0]

\* the years of the submitted windows
AllYears == {Submitted[i].year : i \in DOMAIN Submitted}

\* the files main() may write
Paths ==
  {MonthlyPath(Submitted[i].year, Submitted[i].month) : i \in DOMAIN Submitted}
  \cup {YearlyPath(y) : y \in AllYears}
  \cup {CombinedPath}

\* ------------------------------------------------------------------- state
VARIABLES
  pc,           \* where main() is: idle, drain, save_combined, done, crashed
  run,          \* how many times main() was started on this export directory
  date_ranges,  \* main: date_ranges
  total,        \* main: total
  processed,    \* main: processed
  futures,      \* main: futures, by position in date_ranges
  consumed,     \* the futures as_completed has yielded
  combined_df,  \* main: combined_df
  yearly_dfs,   \* main: yearly_dfs
  before,       \* the files as they were when this run of main() started
  csv,          \* the files under quake_exports/csv
  json,         \* the files under quake_exports/json
  calls,        \* append specification: the frames passed to save_to_csv
  batch,        \* validation specification: the response validated
  outcome       \* validation specification: what validate_quake_data did

vars ==
  <<pc, run, date_ranges, total, processed, futures, consumed, combined_df,
    yearly_dfs, before, csv, json, calls, batch, outcome>>

mainVars ==
  <<pc, run, date_ranges, total, processed, futures, consumed, combined_df,
    yearly_dfs, before>>

\* validation specification: validate_quake_data was not called yet
NotCalled == [called |-> FALSE, raised |-> FALSE, df |-> EmptyDataFrame]
Called(v) == [called |-> TRUE, raised |-> v.raised, df |-> v.df]

NoYears == [y \in {} |-> EmptyDataFrame]
Running == [state |-> "running", resp |-> Response(TRUE, <<>>), result |-> EmptyDataFrame]

InitMain ==
  /\ pc = "idle"
  /\ run = 0
  /\ date_ranges = <<>>
  /\ total = 0
  /\ processed = 0
  /\ futures = <<>>
  /\ consumed = {}
  /\ combined_df = EmptyDataFrame
  /\ yearly_dfs = NoYears
  /\ csv = [p \in Paths |-> NoCsv]
  /\ json = [p \in Paths |-> NoJson]
  /\ before = [csv |-> csv, json |-> json]

Init ==
  /\ InitMain
  /\ calls = <<>>
  /\ batch = <<>>
  /\ outcome = NotCalled

\* main() is started: lines 107-117, every window's fetch is submitted
Start ==
  /\ pc \in {"idle", "done", "crashed"}
  /\ run < MaxRuns
  /\ run' = run + 1
  /\ date_ranges' = Submitted
  /\ total' = Len(Submitted)
  /\ processed' = 0
  /\ combined_df' = EmptyDataFrame
  /\ yearly_dfs' = NoYears
  /\ futures' = [i \in DOMAIN Submitted |-> Running]
  /\ consumed' = {}
  /\ before' = [csv |-> csv, json |-> json]
  /\ pc' = "drain"
  /\ UNCHANGED <<csv, json, calls, batch, outcome>>

\* a worker thread ends fetch_quake_data for window i
FetchComplete(i, resp) ==
  /\ pc = "drain"
  /\ futures[i].state = "running"
  /\ futures' = [futures EXCEPT ![i] =
                   [state |-> "finished", resp |-> resp,
                    result |-> fetch_quake_data(resp)]]
  /\ UNCHANGED <<pc, run, date_ranges, total, processed, consumed,
                 combined_df, yearly_dfs, before, csv, json, calls, batch,
                 outcome>>

\* mutant: the year's buffer is started afresh by every window
yearly_get_fresh(dfs, year) == EmptyDataFrame

\* yearly_dfs.get(year, pd.DataFrame())
yearly_get(dfs, year) == IF year \in DOMAIN dfs THEN dfs[year] ELSE EmptyDataFrame
yearly_set(dfs, year, df) ==
  [y \in DOMAIN dfs \cup {year} |-> IF y = year THEN df ELSE dfs[y]]

\* one iteration of "for future in as_completed(futures)", lines 119-139
Consume(i) ==
  /\ pc = "drain"
  /\ i \notin consumed
  /\ futures[i].state = "finished"
  /\ consumed' = consumed \cup {i}
  /\ LET year == date_ranges[i].year
         month == date_ranges[i].month
         df_raw == futures[i].result
         v == validate_quake_data(df_raw)
         df_valid == v.df
     IN IF v.raised
        THEN /\ pc' = "crashed"
             /\ UNCHANGED <<processed, combined_df, yearly_dfs, csv, json>>
        ELSE /\ pc' = pc
             /\ processed' = processed + 1
             /\ IF DfEmpty(df_valid)
                THEN UNCHANGED <<combined_df, yearly_dfs, csv, json>>
                ELSE /\ csv' = [csv EXCEPT ![MonthlyPath(year, month)] =
                                  save_to_csv(df_valid, @)]
                     /\ json' = [json EXCEPT ![MonthlyPath(year, month)] =
                                   save_to_json(df_valid, @)]
                     /\ yearly_dfs' =
                          yearly_set(yearly_dfs, year,
                                     concat(yearly_get(yearly_dfs, year), df_valid))
                     /\ combined_df' = concat(combined_df, df_valid)
  /\ UNCHANGED <<run, date_ranges, total, futures, before, calls, batch,
                 outcome>>

\* the loop is over: "Saving yearly files", lines 141-145
SaveYearly ==
  /\ pc = "drain"
  /\ consumed = DOMAIN futures
  /\ csv' = [p \in Paths |->
               IF p.level = "yearly" /\ p.year \in DOMAIN yearly_dfs
               THEN save_to_csv(yearly_dfs[p.year], csv[p]) ELSE csv[p]]
  /\ json' = [p \in Paths |->
                IF p.level = "yearly" /\ p.year \in DOMAIN yearly_dfs
                THEN save_to_json(yearly_dfs[p.year], json[p]) ELSE json[p]]
  /\ pc' = "save_combined"
  /\ UNCHANGED <<run, date_ranges, total, processed, futures, consumed,
                 combined_df, yearly_dfs, before, calls, batch, outcome>>

\* "Saving combined files", lines 147-151
SaveCombined ==
  /\ pc = "save_combined"
  /\ csv' = [csv EXCEPT ![CombinedPath] = save_to_csv(combined_df, @)]
  /\ json' = [json EXCEPT ![CombinedPath] = save_to_json(combined_df, @)]
  /\ pc' = "done"
  /\ UNCHANGED <<run, date_ranges, total, processed, futures, consumed,
                 combined_df, yearly_dfs, before, calls, batch, outcome>>

Next ==
  \/ Start
  \/ \E i \in DOMAIN futures :
       \E resp \in Responses(date_ranges[i]) : FetchComplete(i, resp)
  \/ \E i \in DOMAIN futures : Consume(i)
  \/ SaveYearly
  \/ SaveCombined

Spec == Init /\ [][Next]_vars

\* ------------------------------------------------- the append specification
\* save_to_csv called again and again on one path that did not exist.
FrameOf(quakes) == validate_quake_data(DataFrame(quakes)).df

Frames ==
  { EmptyDataFrame,
    FrameOf(<<QuakeOut>>),
    FrameOf(<<QuakeA>>),
    FrameOf(<<QuakeB>>),
    FrameOf(<<QuakeA, QuakeB>>) }

AppendRecords(df) ==
  /\ Len(calls) < MaxCalls
  /\ calls' = Append(calls, df)
  /\ csv' = [csv EXCEPT ![CombinedPath] = save_to_csv(df, @)]
  /\ UNCHANGED <<mainVars, json, batch, outcome>>

NextAppend == \E df \in Frames : AppendRecords(df)

SpecAppend == Init /\ [][NextAppend]_vars

\* --------------------------------------------- the validation specification
\* validate_quake_data applied to the frame of one response.
TimeOf(q, t) == [q EXCEPT !.v.time = t]

QuakePool ==
  { QuakeA,
    \* the same second as QuakeA, half a second later
    TimeOf(QuakeA, RawTime("iso", Timestamp(1950, 1, 15, 3600, 500))),
    QuakeB,
    QuakeBare,
    QuakeOut,
    [QuakeA EXCEPT !.v.mag = RawNum("num", -1)],
    [QuakeA EXCEPT !.v.depth = RawNum("num", 701)],
    [QuakeA EXCEPT !.v.latitude = RawNum("num", -91)],
    [QuakeA EXCEPT !.v.longitude = RawNum("num", 181)],
    [QuakeA EXCEPT !.v.latitude = RawNum("num", -90),
                   !.v.longitude = RawNum("num", 180),
                   !.v.depth = RawNum("num", 0), !.v.mag = RawNum("num", 0)],
    [QuakeA EXCEPT !.v.depth = RawNum("junk", 0)],
    TimeOf(QuakeA, RawTime("junk", NaT)),
    TimeOf(QuakeA, RawTime("iso", Timestamp(1949, 12, 31, SecondsPerDay - 1, 0))),
    TimeOf(QuakeA, RawTime("iso", Timestamp(2025, 12, 31, SecondsPerDay - 1, 0))),
    TimeOf(QuakeA, RawTime("iso", Timestamp(2025, 12, 31, SecondsPerDay - 1, 500))),
    [QuakeA EXCEPT !.keys = AllKeys \ {"time"}] }

Batches == UNION {[1..n -> QuakePool] : n \in 0..MaxBatch}

InitValidate ==
  /\ InitMain
  /\ calls = <<>>
  /\ batch \in Batches
  /\ outcome = NotCalled

Validate ==
  /\ ~outcome.called
  /\ outcome' = Called(validate_quake_data(fetch_quake_data(Response(FALSE, batch))))
  /\ UNCHANGED <<mainVars, csv, json, calls, batch>>

NextValidate == Validate

SpecValidate == InitValidate /\ [][NextValidate]_vars

\* ------------------------------------------------------------ the properties
Count(seq, x) == Cardinality({i \in DOMAIN seq : seq[i] = x})
SubBag(a, b) == \A x \in SeqToSet(a) : Count(a, x) <= Count(b, x)
SameBag(a, b) == SubBag(a, b) /\ SubBag(b, a)
NoDuplicates(seq) == \A i, j \in DOMAIN seq : seq[i] = seq[j] => i = j

RECURSIVE Flatten(_)
Flatten(ss) ==
  IF ss = <<>> THEN <<>>
  ELSE Flatten(SubSeq(ss, 1, Len(ss) - 1)) \o ss[Len(ss)]

\* what validate_quake_data makes of the result of window i's fetch
ValidOf(i) == validate_quake_data(futures[i].result)
FetchFailed(i) == futures[i].state = "finished" /\ futures[i].resp.err

\* the records this run of main() has added to the CSV file of path p
Appended(p) ==
  LET old == CsvRecords(before.csv[p])
      new == CsvRecords(csv[p])
  IN SubSeq(new, Len(old) + 1, Len(new))

\* the records this run has added to the Monthly files of `years`
MonthlyRows(years) ==
  Flatten([i \in DOMAIN date_ranges |->
             IF date_ranges[i].year \in years
             THEN Appended(MonthlyPath(date_ranges[i].year, date_ranges[i].month))
             ELSE <<>>])

\* C1: once a run of main() has finished, every record it wrote to a Monthly
\* partition of year Y is among the records it wrote to the Yearly partition
\* of Y and to the Combined partition, in the CSV and in the JSON form, with
\* its multiplicity.
ThmC1 ==
  pc = "done" =>
    /\ \A y \in AllYears :
         /\ SubBag(MonthlyRows({y}), Appended(YearlyPath(y)))
         /\ SubBag(MonthlyRows({y}), json[YearlyPath(y)].earthquakes)
    /\ SubBag(MonthlyRows(AllYears), Appended(CombinedPath))
    /\ SubBag(MonthlyRows(AllYears), json[CombinedPath].earthquakes)

\* C1 witness: a finished second run in which every window wrote its Monthly
\* partition, on a directory that already held a Combined file.
WitC1 ==
  /\ pc = "done"
  /\ before.csv[CombinedPath].exists
  /\ \A i \in DOMAIN date_ranges :
       Appended(MonthlyPath(date_ranges[i].year, date_ranges[i].month)) # <<>>

\* the number of valid records of the windows whose fetch did not fail
ValidCount ==
  Len(Flatten([i \in DOMAIN futures |->
                 IF FetchFailed(i) THEN <<>> ELSE ValidOf(i).df.rows]))

\* C2 (state part): in a finished run every window was processed and the
\* Combined record count is the sum of the valid record counts of the
\* windows whose fetch did not fail.
FinalCountC2 ==
  pc = "done" =>
    /\ consumed = DOMAIN futures
    /\ processed = total
    /\ DfLen(combined_df) = ValidCount
    /\ Len(Appended(CombinedPath)) = ValidCount
    /\ ValidCount > 0 => Len(json[CombinedPath].earthquakes) = ValidCount

\* C2 (step part): the loop iteration that consumes a window whose fetch
\* failed counts the window as processed, adds no record anywhere and leaves
\* the loop running.
IsolatedC2 ==
  \A i \in DOMAIN futures :
    (i \notin consumed /\ i \in consumed' /\ FetchFailed(i)) =>
      /\ pc' = "drain"
      /\ processed' = processed + 1
      /\ UNCHANGED <<combined_df, yearly_dfs, csv, json>>

\* C2: fetch failure isolation: a window whose fetch failed contributes zero
\* records and does not stop the loop, and the final Combined record count
\* is the sum of the valid record counts of the other windows.
ThmC2 == [] FinalCountC2 /\ [][IsolatedC2]_vars

\* C2 witness: a finished run with a failed fetch and a window with records.
WitC2 ==
  /\ pc = "done"
  /\ \E i \in DOMAIN futures : FetchFailed(i)
  /\ ValidCount > 0

\* C3: a window whose validation fails does not abort the run.
ClaimC3 ==
  (\E i \in consumed : ValidOf(i).raised) => pc # "crashed"

\* C4: one fetch task per generated window, and a run that has stopped by
\* itself has consumed the result of every window.
ClaimC4 ==
  /\ pc # "idle" => Len(futures) = Len(date_ranges) /\ total = Len(date_ranges)
  /\ pc \in {"done", "crashed"} => consumed = DOMAIN futures /\ processed = total

\* C5: in every partition the CSV form and the JSON form hold the same
\* records.
ClaimC5 ==
  \A p \in Paths :
    /\ csv[p].exists = json[p].exists
    /\ CsvRecords(csv[p]) = json[p].earthquakes

\* C6: no persisted dataset holds two identical canonical records.
ClaimC6 ==
  \A p \in Paths :
    /\ NoDuplicates(CsvRecords(csv[p]))
    /\ NoDuplicates(json[p].earthquakes)

\* the month of a window is after the month of a persisted time_utc
MonthAfter(w, time_utc) ==
  w.year > time_utc[1] \/ (w.year = time_utc[1] /\ w.month > time_utc[2])

\* the windows between the last record of the Combined file and the cutoff
WindowsAfterLastKnown(combined) ==
  LET known == CsvRecords(combined)
      New(w) == \A k \in DOMAIN known : MonthAfter(w, known[k].time_utc)
  IN SelectSeq(generate_date_ranges, New)

\* C8: the generated windows are exactly the months strictly after the month
\* of the last persisted record and before the cutoff (here: the first
\* MaxWindows of them).
ClaimC8 ==
  pc = "drain" =>
    date_ranges = Take(WindowsAfterLastKnown(before.csv[CombinedPath]), MaxWindows)

\* the lines of all the save_to_csv calls made so far
CalledLines ==
  Flatten([k \in DOMAIN calls |->
             IF DfEmpty(calls[k]) THEN <<>> ELSE MapSeq(calls[k].rows, DataLine)])

\* C9: after any calls of save_to_csv on a path that did not exist the file
\* is one header line followed by the rows of every call in turn, each as
\* often as it was passed (twice for a frame passed twice); no file is
\* created while every frame passed was empty.
ThmC9 ==
  LET file == csv[CombinedPath]
  IN IF CalledLines = <<>>
     THEN file = NoCsv
     ELSE file.exists /\ file.lines = <<HeaderLine>> \o CalledLines

\* C9 witness: the same non-empty frame passed twice to a fresh path.
WitC9 ==
  /\ Len(calls) = 2
  /\ calls[1] = calls[2]
  /\ ~DfEmpty(calls[1])
  /\ CsvHeaders(csv[CombinedPath]) = 1
  /\ Len(CsvRecords(csv[CombinedPath])) = 2 * DfLen(calls[1])

\* what the files of the year's and the combined level must hold after a
\* finished run, given the valid rows `rows` of its windows in window order
LevelAsExpected(p, rows) ==
  /\ SameBag(Appended(p), rows)
  /\ CsvHeaders(csv[p]) =
       IF before.csv[p].exists \/ rows = <<>> THEN CsvHeaders(before.csv[p]) ELSE 1
  /\ IF rows = <<>>
     THEN json[p] = before.json[p]
     ELSE json[p].exists /\ SameBag(json[p].earthquakes, rows)

ValidRows(years) ==
  Flatten([i \in DOMAIN futures |->
             IF date_ranges[i].year \in years THEN ValidOf(i).df.rows ELSE <<>>])

ParsedRow(r) ==
  [r EXCEPT !.time = to_datetime(r.time),
            !.latitude = to_numeric(r.latitude),
            !.longitude = to_numeric(r.longitude),
            !.depth = to_numeric(r.depth),
            !.mag = to_numeric(r.mag)]

\* C7: no record outside the bounds is in the output, and every record
\* within the bounds with a timestamp of the accepted range and numeric
\* fields has its canonical copy in the output, one output row for each
\* distinct such record.
ClaimC7 ==
  outcome.called =>
    LET parsed == MapSeq(DataFrame(batch).rows, ParsedRow)
        Good(r) == InTimeRange(r) /\ InBounds(r)
        good == SelectSeq(parsed, Good)
    IN /\ \A k \in DOMAIN outcome.df.rows :
            /\ between(outcome.df.rows[k].latitude, MIN_LAT, MAX_LAT)
            /\ between(outcome.df.rows[k].longitude, MIN_LON, MAX_LON)
            /\ between(outcome.df.rows[k].depth, MIN_DEPTH, MAX_DEPTH)
            /\ between(outcome.df.rows[k].mag, MIN_MAG, MAX_MAG)
       /\ \A k \in DOMAIN good :
            \E n \in DOMAIN outcome.df.rows : outcome.df.rows[n] = Canonical(good[k])
       /\ Len(outcome.df.rows) = Cardinality(SeqToSet(good))

====
